---- MODULE Spec2Model ----
(***************************************************************************)
(* Murfai backend (server.js, carried in Recorder.js lines 132-408):       *)
(* the /api/upload handler (ingestion, job creation, status poll loop,     *)
(* temp-file cleanup) and the /api/generate handler (keyword extraction,   *)
(* story corpus query, template and fallback stories, speech synthesis).   *)
(* Every await of a handler is a position (pc); the code between two       *)
(* awaits is one atomic action.  Strings are TLA+ strings; time is in      *)
(* milliseconds.                                                           *)
(***************************************************************************)
EXTENDS Integers, Sequences, FiniteSets, TLC

\* ------------------------------------------------------------- bounds
\* Longest time a provider takes to answer one request (ms); the code sets
\* no timeout on fetch, so any value is possible.
MaxFetchDelay == 30000
\* Math.random() is drawn from {0/RandDenom, ..., (RandDenom-1)/RandDenom}.
RandDenom == 6
\* Status requests one upload makes while another upload is in progress.
MaxConcPolls == 2
\* Times the record button is pressed in one behaviour of the browser.
MaxRuns == 2

\* --------------------------------------------------- program constants
timeoutMs == 60000
PollIntervalMs == 1000
MinTextLength == 10
MinWordLength == 3
MaxKeywords == 3
MinStoryLength == 50

\* Upload requests of the model; a behaviour of Spec runs the first one.
Reqs == {1, 2}
SoloReqs == {1}

VARIABLES
    up,     \* up[r]: the locals and the response of upload request r
    disk,   \* the paths present in the uploads/ directory
    gen,    \* the locals and the response of the /api/generate request
    ui      \* the browser Recorder: its React state and where recordAndSend is

vars == <<up, disk, gen, ui>>

\* ------------------------------------------------------ JS-like values
\* A JSON object is a record; an absent field is a name outside its DOMAIN.
EmptyObj == [x \in {} |-> ""]

\* obj.name || '' for string fields: absent and empty are both falsy.
Field(obj, name) == IF name \in DOMAIN obj THEN obj[name] ELSE ""

\* String(err) of an Error object.
ErrorToString(err) == err.name \o ": " \o err.message

NewError(message) == [name |-> "Error", message |-> message]

NoError == [name |-> "", message |-> ""]

\* What an awaited fetch rejects with (network failure) or what
\* response.json() rejects with (unusable body).
FetchError(message) == [name |-> "FetchError", message |-> message]

\* JSON.stringify of a poll body (fields in the order status, text, error).
JsonStringify(obj) ==
    LET part(n) == IF n \in DOMAIN obj
                   THEN <<"\"" \o n \o "\":\"" \o obj[n] \o "\"">> ELSE <<>>
        parts == part("status") \o part("text") \o part("error")
        join[i \in 0..Len(parts)] ==
            IF i = 0 THEN ""
            ELSE IF i = 1 THEN parts[1]
            ELSE join[i - 1] \o "," \o parts[i]
    IN  "{" \o join[Len(parts)] \o "}"

\* ------------------------------------------------------------ responses
NoResponse == [sent |-> FALSE, status |-> 0, body |-> EmptyObj]

\* res.json(body): status 200 unless res.status(n) was called first.
JsonResponse(status, body) == [sent |-> TRUE, status |-> status, body |-> body]

\* ------------------------------------------------------- /api/upload
\* req.file as multer leaves it: absent when the multipart body has no
\* "file" part; otherwise stored under uploads/ at a path of its own.
NoFile == [present |-> FALSE, path |-> "", size |-> 0]

StoredFile(r, size) ==
    [present |-> TRUE, path |-> "uploads/" \o ToString(r), size |-> size]

\* The uploads a client can send: no file part, an empty blob, a recording.
FileInputs(r) == {NoFile, StoredFile(r, 0), StoredFile(r, 4096)}

UpInit ==
    [pc |-> "idle", file |-> NoFile, audioUrl |-> "", transcriptId |-> "",
     transcriptText |-> "", elapsed |-> 0, pollJson |-> EmptyObj,
     pollKind |-> "none", polledId |-> "",
     nIngest |-> 0, nCreate |-> 0, nPoll |-> 0,
     err |-> NoError, unlinkTried |-> 0, unlinkResult |-> "none",
     unlinkWork |-> "none",
     res |-> NoResponse]

\* What the transcription provider can answer to one request.
\* kind: "neterr" fetch rejects, "http" a non-success status, "badjson" a
\* success status whose body is no JSON, "json" a success status with `json`.
Answer(kind, status, txt, json) ==
    [kind |-> kind, ok |-> kind \in {"badjson", "json"}, status |-> status,
     txt |-> txt, json |-> json]

IngestAnswers(r) ==
    { Answer("neterr", 0, "request to api.assemblyai.com failed", EmptyObj),
      Answer("http", 401, "Unauthorized", EmptyObj),
      Answer("badjson", 200, "invalid json response body", EmptyObj),
      Answer("json", 200, "", EmptyObj),
      Answer("json", 200, "", [upload_url |-> "https://cdn.assemblyai.com/upload/" \o ToString(r)]) }

CreateAnswers(r) ==
    { Answer("neterr", 0, "request to api.assemblyai.com failed", EmptyObj),
      Answer("http", 400, "Bad Request", EmptyObj),
      Answer("badjson", 200, "invalid json response body", EmptyObj),
      Answer("json", 200, "", [status |-> "queued"]),
      Answer("json", 200, "", [id |-> "job" \o ToString(r), status |-> "queued"]) }

\* What was said in the recording of upload r: the text the provider holds
\* for the job made from it.
JobText(r) == IF r = 1 THEN "tell me about dragons and castles" ELSE "sing a song of rain"

PollAnswers(r) ==
    { Answer("neterr", 0, "request to api.assemblyai.com failed", EmptyObj),
      Answer("http", 500, "Internal Server Error", EmptyObj),
      Answer("badjson", 200, "invalid json response body", EmptyObj),
      Answer("json", 200, "", [status |-> "queued"]),
      Answer("json", 200, "", [status |-> "processing"]),
      Answer("json", 200, "", [status |-> "completed", text |-> JobText(r)]),
      Answer("json", 200, "", [status |-> "completed", text |-> ""]),
      Answer("json", 200, "", [status |-> "completed"]),
      Answer("json", 200, "", [status |-> "error", error |-> "audio is unreadable"]),
      Answer("json", 200, "", [status |-> "error"]) }

\* How long the answer to a status request takes to arrive.
FetchDelays == {0, MaxFetchDelay}

\* Line 176: the handler goes on whenever req.file is an object; the size of
\* the stored file is never read.
HasFile(file) == file.present

\* Line 176: res.status(400).json({ error: 'no_file' }).
NoFileResponse == JsonResponse(400, [error |-> "no_file"])

\* Lines 182-189, 201-211, 227-229: the three requests to the provider.
SendIngest(u) == [u EXCEPT !.nIngest = @ + 1, !.pc = "ingest"]

SendCreate(u) == [u EXCEPT !.nCreate = @ + 1, !.pc = "create"]

SendPoll(u) ==
    [u EXCEPT !.nPoll = @ + 1, !.polledId = u.transcriptId, !.pc = "poll"]

\* Faulty variant of IngestError: a success answer without upload_url is
\* accepted.
IngestErrorNoUrlCheck(ans) ==
    IF ans.kind = "neterr" THEN FetchError(ans.txt)
    ELSE IF ~ans.ok
    THEN NewError("AssemblyAI upload failed: " \o ToString(ans.status) \o " " \o ans.txt)
    ELSE IF ans.kind = "badjson" THEN FetchError(ans.txt)
    ELSE NoError

\* Lines 191-196: what step 1 throws on the provider's answer (NoError: none).
IngestError(ans) ==
    IF ans.kind = "neterr" THEN FetchError(ans.txt)
    ELSE IF ~ans.ok
    THEN NewError("AssemblyAI upload failed: " \o ToString(ans.status) \o " " \o ans.txt)
    ELSE IF ans.kind = "badjson" THEN FetchError(ans.txt)
    ELSE IF Field(ans.json, "upload_url") = ""
    THEN NewError("AssemblyAI upload returned no upload_url.")
    ELSE NoError

\* Lines 213-218: what step 2 throws on the provider's answer.
CreateError(ans) ==
    IF ans.kind = "neterr" THEN FetchError(ans.txt)
    ELSE IF ~ans.ok
    THEN NewError("AssemblyAI transcript create failed: " \o ToString(ans.status) \o " " \o ans.txt)
    ELSE IF ans.kind = "badjson" THEN FetchError(ans.txt)
    ELSE IF Field(ans.json, "id") = ""
    THEN NewError("AssemblyAI transcript creation failed (no id).")
    ELSE NoError

\* Lines 230-234: a status request that fails before its body is examined.
PollFetchError(ans) ==
    IF ans.kind = "neterr" THEN FetchError(ans.txt)
    ELSE IF ~ans.ok
    THEN NewError("AssemblyAI poll failed: " \o ToString(ans.status) \o " " \o ans.txt)
    ELSE IF ans.kind = "badjson" THEN FetchError(ans.txt)
    ELSE NoError

\* Faulty variant of TranscriptOf: reads a field the provider never sends.
TranscriptOfWrongField(pollJson) == Field(pollJson, "transcript")

\* Line 236: transcriptText = pollJson.text || ''.
TranscriptOf(pollJson) == Field(pollJson, "text")

\* Faulty variant of TranscriptionError: the provider's message is dropped.
TranscriptionErrorBare(pollJson) == NewError("AssemblyAI transcription error")

\* Line 240: the error thrown on status error.
TranscriptionError(pollJson) ==
    NewError("AssemblyAI transcription error: " \o
             (IF Field(pollJson, "error") # "" THEN pollJson.error
              ELSE JsonStringify(pollJson)))

TimeoutError == NewError("AssemblyAI transcription timed out.")

\* Faulty variant of PollVerdict: the elapsed time is never examined.
PollVerdictNoTimeout(pollJson, elapsed) ==
    IF Field(pollJson, "status") = "completed" THEN "completed"
    ELSE IF Field(pollJson, "status") = "error" THEN "error"
    ELSE "continue"

\* Faulty variant of PollVerdict: every status but queued and error ends the
\* loop as if the job were completed.
PollVerdictEager(pollJson, elapsed) ==
    IF Field(pollJson, "status") = "error" THEN "error"
    ELSE IF Field(pollJson, "status") # "queued" THEN "completed"
    ELSE IF elapsed > timeoutMs THEN "timeout"
    ELSE "continue"

\* Faulty variant of PollVerdict: the elapsed time is examined before the
\* status.
PollVerdictBudgetFirst(pollJson, elapsed) ==
    IF elapsed > timeoutMs THEN "timeout"
    ELSE IF Field(pollJson, "status") = "completed" THEN "completed"
    ELSE IF Field(pollJson, "status") = "error" THEN "error"
    ELSE "continue"

\* Lines 235-244, in the order of the code: the status is examined first,
\* the elapsed time (Date.now() - start) last.
PollVerdict(pollJson, elapsed) ==
    IF Field(pollJson, "status") = "completed" THEN "completed"
    ELSE IF Field(pollJson, "status") = "error" THEN "error"
    ELSE IF elapsed > timeoutMs THEN "timeout"
    ELSE "continue"

\* Faulty variant of ContinueLoop: the job is created again in every round.
ContinueLoopResubmit(u) == SendCreate(u)

\* Line 225: for (;;) goes back to the sleep of line 226.
ContinueLoop(u) == [u EXCEPT !.pc = "sleep"]

\* Lines 247-250: fs.unlink(filePath, () => {}) queues the deletion for the
\* thread pool (unlinkWork); the transcript is returned while the callback
\* has not run (unlinkResult pending).
SuccessBlock(u) ==
    [u EXCEPT !.unlinkTried = @ + 1,
              !.unlinkWork = "queued",
              !.unlinkResult = "pending",
              !.res = JsonResponse(200, [transcript |-> u.transcriptText]),
              !.pc = "done"]

\* Faulty variant of CatchBlock: unlinkSync is not wrapped in a try of its
\* own, so a failing deletion throws out of the catch block and no response
\* is sent.
CatchBlockUnguarded(u, err, unlinkOk) ==
    [u EXCEPT !.err = err,
              !.unlinkTried = @ + 1,
              !.unlinkResult = IF unlinkOk THEN "ok" ELSE "failed",
              !.res = IF unlinkOk
                      THEN JsonResponse(500, [error |-> "upload_failed",
                                              detail |-> ErrorToString(err)])
                      ELSE NoResponse,
              !.pc = "done"]

\* Lines 251-256: the catch block. unlinkSync runs inside its own try/catch,
\* then the caught error is reported.
CatchBlock(u, err, unlinkOk) ==
    LET hasPath == u.file.present /\ u.file.path # ""
    IN  [u EXCEPT !.err = err,
                  !.unlinkTried = IF hasPath THEN @ + 1 ELSE @,
                  !.unlinkResult = IF ~hasPath THEN @
                                   ELSE IF unlinkOk THEN "ok" ELSE "failed",
                  !.res = JsonResponse(500, [error |-> "upload_failed",
                                             detail |-> ErrorToString(err)]),
                  !.pc = "done"]

\* Line 248: upload u once the thread pool has carried out its deletion.
UnlinkWorked(u, unlinkOk) ==
    [u EXCEPT !.unlinkWork = IF unlinkOk THEN "removed" ELSE "refused"]

\* Faulty variant of Unlink: the whole uploads/ directory is emptied.
UnlinkAll(files, file, unlinkOk) ==
    IF file.present /\ unlinkOk THEN {} ELSE files

\* The uploads/ directory after an unlink of `file` that succeeds or fails.
Unlink(files, file, unlinkOk) ==
    IF file.present /\ unlinkOk THEN files \ {file.path} ELSE files

\* Lines 174-189: multer stores the file part, the handler rejects a request
\* without file or sends the ingestion request.
UploadArrive(r) ==
    /\ up[r].pc = "idle"
    /\ \E f \in FileInputs(r) :
         /\ disk' = IF f.present THEN disk \cup {f.path} ELSE disk
         /\ up' = [up EXCEPT ![r] =
                     IF ~HasFile(f)
                     THEN [@ EXCEPT !.file = f, !.res = NoFileResponse, !.pc = "done"]
                     ELSE SendIngest([@ EXCEPT !.file = f])]
    /\ UNCHANGED <<gen, ui>>

\* Lines 191-211: the ingestion request is answered.
IngestAnswer(r) ==
    /\ up[r].pc = "ingest"
    /\ \E ans \in IngestAnswers(r), unlinkOk \in BOOLEAN :
         LET e == IngestError(ans) IN
         IF e # NoError
         THEN /\ up' = [up EXCEPT ![r] = CatchBlock(@, e, unlinkOk)]
              /\ disk' = Unlink(disk, up[r].file, unlinkOk)
         ELSE /\ up' = [up EXCEPT ![r] =
                          SendCreate([@ EXCEPT !.audioUrl = Field(ans.json, "upload_url")])]
              /\ disk' = disk
    /\ UNCHANGED <<gen, ui>>

\* Lines 213-226: the job-creation request is answered; on success the clock
\* of the poll loop starts and the first sleep begins.
CreateAnswer(r) ==
    /\ up[r].pc = "create"
    /\ \E ans \in CreateAnswers(r), unlinkOk \in BOOLEAN :
         LET e == CreateError(ans) IN
         IF e # NoError
         THEN /\ up' = [up EXCEPT ![r] = CatchBlock(@, e, unlinkOk)]
              /\ disk' = Unlink(disk, up[r].file, unlinkOk)
         ELSE /\ up' = [up EXCEPT ![r] =
                          [@ EXCEPT !.transcriptId = Field(ans.json, "id"),
                                    !.transcriptText = "",
                                    !.elapsed = 0,
                                    !.pc = "sleep"]]
              /\ disk' = disk
    /\ UNCHANGED <<gen, ui>>

\* Lines 226-229: the sleep of one poll interval ends and the status request
\* is sent; nothing is compared with the budget here.
SleepDone(r) ==
    /\ up[r].pc = "sleep"
    /\ up' = [up EXCEPT ![r] = SendPoll([@ EXCEPT !.elapsed = @ + PollIntervalMs])]
    /\ UNCHANGED <<disk, gen, ui>>

\* Lines 230-256: the status request is answered after d milliseconds. On
\* the success path the thread pool, which runs beside the handler, may have
\* carried out the deletion by the time the response is sent (early), or
\* does so later (UnlinkWork); the unlinkSync of the catch block is done when
\* it returns.
PollAnswer(r) ==
    /\ up[r].pc = "poll"
    /\ \E ans \in PollAnswers(r), d \in FetchDelays, unlinkOk \in BOOLEAN :
         LET now == up[r].elapsed + d
             u == [up[r] EXCEPT !.elapsed = now, !.pollKind = ans.kind,
                                !.pollJson = ans.json]
             e == PollFetchError(ans)
             verdict == PollVerdict(ans.json, now)
         IN
         IF e # NoError
         THEN /\ up' = [up EXCEPT ![r] = CatchBlock(u, e, unlinkOk)]
              /\ disk' = Unlink(disk, u.file, unlinkOk)
         ELSE IF verdict = "completed"
         THEN \E early \in BOOLEAN :
                /\ up' = [up EXCEPT ![r] =
                            LET v == SuccessBlock([u EXCEPT !.transcriptText =
                                                                TranscriptOf(ans.json)])
                            IN  IF early THEN UnlinkWorked(v, unlinkOk) ELSE v]
                /\ disk' = IF early THEN Unlink(disk, u.file, unlinkOk) ELSE disk
         ELSE IF verdict = "error"
         THEN /\ up' = [up EXCEPT ![r] =
                          CatchBlock(u, TranscriptionError(ans.json), unlinkOk)]
              /\ disk' = Unlink(disk, u.file, unlinkOk)
         ELSE IF verdict = "timeout"
         THEN /\ up' = [up EXCEPT ![r] = CatchBlock(u, TimeoutError, unlinkOk)]
              /\ disk' = Unlink(disk, u.file, unlinkOk)
         ELSE /\ up' = [up EXCEPT ![r] = ContinueLoop(u)]
              /\ disk' = disk
    /\ UNCHANGED <<gen, ui>>

\* Line 248: the thread pool carries out the deletion queued by fs.unlink;
\* the file leaves uploads/, or stays when the deletion fails. The callback
\* has not run yet.
UnlinkWork(r) ==
    /\ up[r].unlinkWork = "queued"
    /\ \E unlinkOk \in BOOLEAN :
         /\ up' = [up EXCEPT ![r] = UnlinkWorked(@, unlinkOk)]
         /\ disk' = Unlink(disk, up[r].file, unlinkOk)
    /\ UNCHANGED <<gen, ui>>

\* Line 248: back on the event loop the callback () => {} receives the
\* outcome of the deletion and drops it.
UnlinkDone(r) ==
    /\ up[r].unlinkResult = "pending"
    /\ up[r].unlinkWork \in {"removed", "refused"}
    /\ up' = [up EXCEPT ![r].unlinkResult =
                  IF up[r].unlinkWork = "removed" THEN "ok" ELSE "failed"]
    /\ UNCHANGED <<disk, gen, ui>>

Upload(r) ==
    \/ UploadArrive(r)
    \/ IngestAnswer(r)
    \/ CreateAnswer(r)
    \/ SleepDone(r)
    \/ PollAnswer(r)
    \/ UnlinkWork(r)
    \/ UnlinkDone(r)

\* ------------------------------------------------------- strings
\* \s of a regular expression and the characters trim() removes.
IsSpace(c) == c \in {" ", "\t", "\n", "\r", "\f"}

UpperLetters == "ABCDEFGHIJKLMNOPQRSTUVWXYZ"

LowerLetters == "abcdefghijklmnopqrstuvwxyz"

CharAt(s, i) == SubSeq(s, i, i)

LowerChar(c) ==
    IF \E i \in 1..Len(UpperLetters) : CharAt(UpperLetters, i) = c
    THEN CharAt(LowerLetters, CHOOSE i \in 1..Len(UpperLetters) : CharAt(UpperLetters, i) = c)
    ELSE c

\* The characters lo..hi of s, each replaced by its lower-case letter.
RECURSIVE LowerRange(_, _, _)
LowerRange(s, lo, hi) ==
    IF lo > hi THEN ""
    ELSE IF lo = hi THEN LowerChar(CharAt(s, lo))
    ELSE LowerRange(s, lo, (lo + hi) \div 2) \o LowerRange(s, (lo + hi) \div 2 + 1, hi)

\* String.prototype.toLowerCase.
ToLowerCase(s) == LowerRange(s, 1, Len(s))

\* String.prototype.trim: from the first to the last character that is no
\* whitespace.
Trim(s) ==
    LET solid == {i \in 1..Len(s) : ~IsSpace(CharAt(s, i))}
    IN  IF solid = {} THEN ""
        ELSE SubSeq(s, CHOOSE i \in solid : \A j \in solid : i <= j,
                       CHOOSE i \in solid : \A j \in solid : j <= i)

\* s.split(/\s+/): the pieces between maximal runs of whitespace, in order;
\* a leading or trailing run leaves an empty piece, and "" splits into [""].
SplitWhitespace(s) ==
    LET starts == {i \in 1..Len(s) :
                     ~IsSpace(CharAt(s, i)) /\ (i = 1 \/ IsSpace(CharAt(s, i - 1)))}
        endOf(i) == CHOOSE e \in i..Len(s) :
                      /\ \A k \in i..e : ~IsSpace(CharAt(s, k))
                      /\ (e = Len(s) \/ IsSpace(CharAt(s, e + 1)))
        nth(k) == CHOOSE i \in starts : Cardinality({j \in starts : j < i}) = k - 1
        pieces == [k \in 1..Cardinality(starts) |-> SubSeq(s, nth(k), endOf(nth(k)))]
        lead == IF s = "" \/ IsSpace(CharAt(s, 1)) THEN <<"">> ELSE <<>>
        trail == IF s # "" /\ IsSpace(CharAt(s, Len(s))) THEN <<"">> ELSE <<>>
    IN  lead \o pieces \o trail

\* String.prototype.includes.
Includes(s, sub) ==
    \E i \in 1..(Len(s) - Len(sub) + 1) : SubSeq(s, i, i + Len(sub) - 1) = sub

\* Array.prototype.join.
JoinWith(words, sep) ==
    LET f[i \in 0..Len(words)] ==
            IF i = 0 THEN ""
            ELSE IF i = 1 THEN words[1]
            ELSE f[i - 1] \o sep \o words[i]
    IN  f[Len(words)]

\* Faulty variant of SliceTo: one element too many is kept.
SliceToLoose(seq, n) == SubSeq(seq, 1, IF Len(seq) < n + 1 THEN Len(seq) ELSE n + 1)

\* Array.prototype.slice(0, n).
SliceTo(seq, n) == SubSeq(seq, 1, IF Len(seq) < n THEN Len(seq) ELSE n)

\* Whether character i of s lies in a match of /<[^>]*>/g: a "<" at or
\* before i with no ">" between it and i, and a ">" at or after i. (A match
\* starts at the first "<" after the last ">" and ends at the next ">".)
InTag(s, i) ==
    /\ \E p \in 1..i : /\ CharAt(s, p) = "<"
                       /\ \A k \in p..(i - 1) : CharAt(s, k) # ">"
    /\ \E q \in i..Len(s) : CharAt(s, q) = ">"

\* The characters lo..hi of s that lie in no tag.
RECURSIVE KeepRange(_, _, _)
KeepRange(s, lo, hi) ==
    IF lo > hi THEN ""
    ELSE IF lo = hi THEN (IF InTag(s, lo) THEN "" ELSE CharAt(s, lo))
    ELSE KeepRange(s, lo, (lo + hi) \div 2) \o KeepRange(s, (lo + hi) \div 2 + 1, hi)

\* story.replace(/<[^>]*>/g, '').
StripTags(s) == KeepRange(s, 1, Len(s))

\* Math.floor(Math.random() * n) for the draw rnd / RandDenom.
FloorRandom(rnd, n) == (rnd * n) \div RandDenom

RandomDraws == 0..(RandDenom - 1)

\* ----------------------------------------------------- /api/generate
\* Line 275.
stopWords == {"a", "an", "the", "is", "are", "was", "were", "be", "been", "being", "have", "has", "had", "do", "does", "did", "will", "would", "should", "could", "may", "might", "can", "tell", "me", "about", "of", "to", "for", "in", "on", "at", "by", "with"}

\* Lines 347-349.
fallbackStories == <<
    "Once upon a time, in a magical forest filled with wonder, there lived a brave little bunny named Fluffy. Fluffy had the softest white fur and the brightest curious eyes you ever did see. Every morning, she would wake up excited to explore new parts of the enchanted forest. One beautiful spring day, while hopping through a meadow of colorful wildflowers, Fluffy discovered something extraordinary. Hidden beneath a rainbow of petals was a glowing golden carrot that shimmered with magical light! Fluffy couldn't believe her eyes. She carefully picked up the magical carrot and knew immediately that this was something special that needed to be shared. She hopped as fast as her little legs could carry her, gathering all her forest friends together. There was Sammy the squirrel, Oliver the owl, Bella the butterfly, and many more wonderful creatures. When they all saw the magical carrot, their eyes lit up with amazement and joy. Fluffy broke the carrot into pieces and shared it with everyone, and something magical happened. Each friend who ate a piece felt filled with happiness, kindness, and courage. From that day forward, the forest was filled with even more love and friendship than before. Fluffy learned that the best kind of magic comes from sharing and caring for others. And they all played together happily ever after, making beautiful memories every single day!",
    "There was a tiny mouse named Max who lived in the coziest little hole you could imagine, right at the base of an old oak tree. Max's home was decorated with acorn caps and soft moss, and he loved it dearly. But there was one thing Max loved even more than his cozy home, and that was cheese! Max dreamed about cheese day and night. He loved all kinds: sharp cheddar, creamy brie, Swiss with holes, and tangy blue cheese. One extraordinary morning, Max woke up to the most incredible smell wafting through his tiny door. He followed his nose through the forest, over hills, and across babbling brooks. The delicious aroma led him to an enormous cave he had never seen before. When Max entered the cave, he gasped in absolute amazement. There, sitting in the middle of the cave, was the biggest, most magnificent wheel of golden cheese he had ever laid eyes on! It was as tall as a tree and as wide as a house. Max couldn't believe his incredible luck! But then Max had a wonderful idea. Instead of keeping this treasure all to himself, he decided to share it with everyone in the forest. He scurried back home and invited all his friends: the rabbits, the birds, the deer, the foxes, and even the shy hedgehogs. That evening, they had the most spectacular cheese party the forest had ever seen! There was dancing under the stars, singing beautiful songs, and laughter that echoed through the trees. Everyone enjoyed the delicious cheese and thanked Max for his generous heart. Max realized that sharing something special with friends made it taste even better than keeping it all to himself. They celebrated until the moon was high in the sky, and Max went to bed that night with the biggest smile on his face. What an absolutely wonderful and unforgettable day it had been!",
    "High above the clouds, in the bright blue sky, lived a friendly dragon named Spark who was quite different from other dragons. While most dragons breathed fire and guarded treasure, Spark had a very special and unique gift. He could paint the most beautiful, vibrant rainbows anyone had ever seen! Every morning, as the sun began to rise and paint the sky with golden light, Spark would wake up feeling excited and ready to create. He had a magical paintbrush that was as long as a tree and bristles that sparkled with all the colors of the rainbow. Spark would fly gracefully through the clouds, dipping his brush in sunlight and rain, mixing colors that no one had ever seen before. He painted magnificent arches of red, orange, yellow, green, blue, indigo, and violet across the vast sky. The children in the villages below would run outside, point up at the sky, and wave enthusiastically at their friend Spark. Their faces would light up with pure joy and wonder every single time they saw his beautiful creations. Parents would stop their work to admire Spark's artwork, and even the grumpiest grown-ups couldn't help but smile when they saw his rainbows. Spark loved knowing that his art brought happiness to so many people and made their days brighter. He would sometimes paint special shapes in his rainbows: hearts for people in love, stars for those who needed hope, and swirls for anyone who needed a reason to smile. Every evening, as the sun began to set, Spark would paint one last magnificent rainbow to say goodnight to all his friends below. He would curl up on a soft cloud, feeling warm and content, knowing he had made the world more beautiful and colorful that day. Spark was truly the happiest dragon in the entire world, and everyone loved him dearly!" >>

\* Line 267: (req.body && req.body.text) ? String(req.body.text).trim() : ''.
UserTextOf(body) == Trim(Field(body, "text"))

\* Faulty variant of UseKeywords: the threshold is on the token length.
UseKeywordsLoose(userText) == userText # "" /\ Len(userText) > MinWordLength

\* Line 273: userText && userText.length > 10.
UseKeywords(userText) == userText # "" /\ Len(userText) > MinTextLength

\* Faulty variant of IsKeyword: tokens of length 3 pass the filter.
IsKeywordLoose(w) == Len(w) >= MinWordLength /\ w \notin stopWords

\* Line 276: the filter on the tokens.
IsKeyword(w) == Len(w) > MinWordLength /\ w \notin stopWords

\* Lines 276-277.
ExtractKeywords(userText) ==
    SliceTo(SelectSeq(SplitWhitespace(ToLowerCase(userText)), IsKeyword), MaxKeywords)

\* Lines 339-340: the story built from the keywords.
TemplateStory(keywords) ==
    LET mainKeyword == IF Len(keywords) > 0 /\ keywords[1] # "" THEN keywords[1]
                       ELSE "adventure"
    IN  "Once upon a time, in a land far, far away, there was a wonderful story about " \o
        JoinWith(keywords, ", ") \o
        ". The tale began on a bright sunny morning when everything seemed peaceful and calm. Suddenly, " \o
        mainKeyword \o
        " appeared and changed everything! The journey was filled with excitement, mystery, and wonder at every turn. Along the way, there were many challenges to overcome and lessons to learn. Friends were made, obstacles were conquered, and hearts were filled with courage. As the days passed, the adventure grew more thrilling and more magical. Every moment brought new surprises and discoveries that amazed everyone. The story of " \o
        mainKeyword \o
        " taught us about bravery, kindness, and the power of believing in ourselves. In the end, everything worked out beautifully, and joy filled the hearts of all who heard this magnificent tale. And so, the legend of " \o
        JoinWith(keywords, " and ") \o
        " lived on forever, inspiring generations to come. They all lived happily ever after, with memories that would last a lifetime!"

\* Lines 292, 298, 303: s.story || s.content || s.text || ''.
EntryText(s) ==
    IF Field(s, "story") # "" THEN s.story
    ELSE IF Field(s, "content") # "" THEN s.content
    ELSE Field(s, "text")

\* Faulty variant of MatchesAny: the entry's text is compared in its own
\* letter case.
MatchesAnyCaseSensitive(s, keywords) ==
    \E i \in 1..Len(keywords) : Includes(EntryText(s), keywords[i])

\* Lines 291-294: the entries whose lowercased text contains any keyword.
MatchesAny(s, keywords) ==
    LET storyText == ToLowerCase(EntryText(s))
    IN  \E i \in 1..Len(keywords) : Includes(storyText, keywords[i])

\* Lines 289-304: extract(data, keywords) for the random draw rnd.
Extract(data, keywords, rnd) ==
    LET matchingStories == SelectSeq(data, LAMBDA s : MatchesAny(s, keywords))
    IN  IF Len(matchingStories) > 0
        THEN EntryText(matchingStories[FloorRandom(rnd, Len(matchingStories)) + 1])
        ELSE IF Len(data) > 0
        THEN EntryText(data[FloorRandom(rnd, Len(data)) + 1])
        ELSE ""

\* Line 319: the test made on the text as extracted, tags included.
LongEnough(story) == story # "" /\ Len(story) > MinStoryLength

\* Lines 320-321.
CleanStory(story) == Trim(StripTags(story))

\* Lines 351: the fallback story for the draw rnd.
FallbackStory(rnd) == fallbackStories[FloorRandom(rnd, Len(fallbackStories)) + 1]

GenInit ==
    [pc |-> "idle", body |-> EmptyObj, userText |-> "", keywords |-> <<>>,
     corpusKind |-> "none", data |-> <<>>, extracted |-> "",
     story |-> "", apiSuccess |-> FALSE, murfText |-> "",
     murfKind |-> "none", murfStatus |-> 0, murfTxt |-> "",
     nCorpus |-> 0, nMurf |-> 0, err |-> NoError, res |-> NoResponse]

\* The request bodies of the model: no text, short texts, texts whose tokens
\* are all filtered out, texts with keywords.
Transcripts ==
    { "",
      "hi there",
      "dragons!!",
      "  hi there    ",
      "tell me about the cat",
      "tell me about dragons and castles",
      "show <b>robots</b> please",
      "Brave KNIGHTS  fought\tfierce Dragons" }

GenerateBodies == {EmptyObj} \cup {[text |-> t] : t \in Transcripts}

\* Entries of the story corpus.
DragonEntry ==
    [story |-> "The village feared the Dragons of the hill until a small girl brought them bread and songs."]

TurtleEntry ==
    [content |-> "<p>A quiet turtle crossed the wide river to visit an old friend on the far shore.</p>"]

MarkupEntry ==
    [text |-> "<div class=\"story\"><span style=\"color: red\">The end.</span></div>"]

TinyEntry == [story |-> "A tiny tale."]

TagsOnlyEntry ==
    [story |-> "<img src=\"https://example.org/pictures/one.png\"><br/><hr/>"]

Corpora ==
    { <<>>,
      <<TurtleEntry, DragonEntry>>,
      <<TurtleEntry, MarkupEntry>>,
      <<MarkupEntry>>,
      <<TinyEntry>>,
      <<TagsOnlyEntry>> }

\* What the story corpus can answer: "notarray" is a success status whose
\* JSON body is no array, so that data.filter throws.
CorpusAnswers ==
    { [kind |-> "neterr", ok |-> FALSE, data |-> <<>>],
      [kind |-> "http", ok |-> FALSE, data |-> <<>>],
      [kind |-> "badjson", ok |-> TRUE, data |-> <<>>],
      [kind |-> "notarray", ok |-> TRUE, data |-> <<>>] }
    \cup {[kind |-> "json", ok |-> TRUE, data |-> d] : d \in Corpora}

\* What the speech-synthesis provider can answer.
MurfAnswers ==
    { Answer("neterr", 0, "request to api.murf.ai failed", EmptyObj),
      Answer("http", 400, "Invalid text", EmptyObj),
      Answer("http", 429, "Rate limit exceeded", EmptyObj),
      Answer("badjson", 200, "invalid json response body", EmptyObj),
      Answer("json", 200, "", [audioFile |-> "https://murf.ai/user-upload/out.mp3"]),
      Answer("json", 200, "", [audioContent |-> "SUQzBAAAAAAA"]),
      Answer("json", 200, "", [audioFile |-> "https://murf.ai/user-upload/out.mp3",
                               audioContent |-> "SUQzBAAAAAAA"]),
      Answer("json", 200, "", [warning |-> "no audio"]) }

\* Lines 355-375: the story is handed to the speech-synthesis provider.
SendMurf(g) == [g EXCEPT !.murfText = g.story, !.nMurf = @ + 1, !.pc = "murf"]

\* Lines 311-313: the corpus query.
SendCorpus(g) == [g EXCEPT !.nCorpus = @ + 1, !.pc = "corpus"]

\* Lines 270-282 and 343-352: the story before any provider is asked.
ResolveStart(g, body, rnd) ==
    LET userText == UserTextOf(body)
        g1 == [g EXCEPT !.body = body, !.userText = userText,
                        !.story = "", !.keywords = <<>>]
    IN  IF UseKeywords(userText)
        THEN LET keywords == ExtractKeywords(userText)
             IN  IF Len(keywords) > 0
                 THEN SendCorpus([g1 EXCEPT !.keywords = keywords])
                 ELSE SendMurf([g1 EXCEPT !.keywords = keywords])
        ELSE SendMurf([g1 EXCEPT !.story = FallbackStory(rnd)])

\* Lines 315-341: the story after the corpus answered.
ResolveCorpus(g, ans, rnd) ==
    LET usable == ans.kind = "json"
        extracted == IF usable THEN Extract(ans.data, g.keywords, rnd) ELSE ""
        accepted == usable /\ LongEnough(extracted)
        story == IF accepted THEN CleanStory(extracted) ELSE extracted
        final == IF ~accepted \/ story = "" THEN TemplateStory(g.keywords) ELSE story
    IN  [g EXCEPT !.corpusKind = ans.kind, !.data = ans.data,
                  !.extracted = extracted, !.apiSuccess = accepted,
                  !.story = final]

\* Faulty variant of GenerateCatch: the detail string is left out.
GenerateCatchNoDetail(g, err) ==
    [g EXCEPT !.err = err,
              !.res = JsonResponse(500, [error |-> "generation_failed"]),
              !.pc = "done"]

\* Lines 393-396: the catch block of /api/generate.
GenerateCatch(g, err) ==
    [g EXCEPT !.err = err,
              !.res = JsonResponse(500, [error |-> "generation_failed",
                                         detail |-> ErrorToString(err)]),
              !.pc = "done"]

\* Faulty variant of MurfError: the provider's status and message are left
\* out of the error.
MurfErrorNoMessage(ans) ==
    IF ans.kind = "neterr" THEN FetchError(ans.txt)
    ELSE IF ~ans.ok THEN NewError("Murf TTS error")
    ELSE IF ans.kind = "badjson" THEN FetchError(ans.txt)
    ELSE NoError

\* Lines 377-382: what the speech-synthesis step throws.
MurfError(ans) ==
    IF ans.kind = "neterr" THEN FetchError(ans.txt)
    ELSE IF ~ans.ok
    THEN NewError("Murf TTS error " \o ToString(ans.status) \o ": " \o ans.txt)
    ELSE IF ans.kind = "badjson" THEN FetchError(ans.txt)
    ELSE NoError

\* Lines 385-392: the success body for the provider's JSON.
MurfBody(story, murfJson) ==
    IF Field(murfJson, "audioFile") # ""
    THEN [story |-> story, audioUrl |-> murfJson.audioFile]
    ELSE IF Field(murfJson, "audioContent") # ""
    THEN [story |-> story, base64_audio |-> murfJson.audioContent]
    ELSE [story |-> story, murf |-> murfJson]

\* Lines 265-313 or 265-375: the request arrives.
GenerateArrive ==
    /\ gen.pc = "idle"
    /\ \E body \in GenerateBodies, rnd \in RandomDraws :
         gen' = ResolveStart(gen, body, rnd)
    /\ UNCHANGED <<up, disk, ui>>

\* Lines 315-375: the corpus query is answered.
CorpusAnswer ==
    /\ gen.pc = "corpus"
    /\ \E ans \in CorpusAnswers, rnd \in RandomDraws :
         gen' = SendMurf(ResolveCorpus(gen, ans, rnd))
    /\ UNCHANGED <<up, disk, ui>>

\* Lines 377-396: the speech-synthesis request is answered.
MurfAnswer ==
    /\ gen.pc = "murf"
    /\ \E ans \in MurfAnswers :
         LET e == MurfError(ans)
             g == [gen EXCEPT !.murfKind = ans.kind, !.murfStatus = ans.status,
                              !.murfTxt = ans.txt]
         IN
         gen' = IF e # NoError
                THEN GenerateCatch(g, e)
                ELSE [g EXCEPT !.res = JsonResponse(200, MurfBody(g.story, ans.json)),
                               !.pc = "done"]
    /\ UNCHANGED <<up, disk, ui>>

Generate ==
    \/ GenerateArrive
    \/ CorpusAnswer
    \/ MurfAnswer

\* ------------------------------------------------- Recorder (browser)
\* Stands for the em dash of lines 5, 6, 13 and 90.
Dash == "-"

\* No reply has been received.
NoReply == [kind |-> "none", ctype |-> "", json |-> EmptyObj, txt |-> ""]

\* Lines 4-8: the state after the first render, recordAndSend not running.
\* uploadReply, genReply, sentText, genSent, caught, audioSrc follow the
\* locals of the current run of recordAndSend and the audio element.
UiInit ==
    [pc |-> "idle", recording |-> FALSE, loading |-> FALSE,
     transcript |-> Dash, story |-> Dash,
     runs |-> 0, nUpload |-> 0, nGenerate |-> 0,
     micGranted |-> FALSE, blobSize |-> 0,
     uploadReply |-> NoReply, genReply |-> NoReply,
     sentText |-> "", genSent |-> FALSE, caught |-> "", audioSrc |-> "",
     played |-> FALSE]

\* What fetch('/api/upload') and uploadResp.json() can give the browser:
\* "neterr" fetch rejects, "badjson" a body that is no JSON (a proxy's error
\* page), "json" one of the bodies /api/upload sends.
UiReply(kind, ctype, json, txt) ==
    [kind |-> kind, ctype |-> ctype, json |-> json, txt |-> txt]

UploadReplies ==
    { UiReply("neterr", "", EmptyObj, "TypeError: Failed to fetch"),
      UiReply("badjson", "text/html", EmptyObj,
              "SyntaxError: Unexpected token < in JSON at position 0"),
      UiReply("json", "application/json", NoFileResponse.body, ""),
      UiReply("json", "application/json",
              [error |-> "upload_failed", detail |-> ErrorToString(TimeoutError)], ""),
      UiReply("json", "application/json", [transcript |-> JobText(1)], ""),
      UiReply("json", "application/json", [transcript |-> ""], "") }

\* What fetch('/api/generate') and the reading of its body can give: the
\* bodies /api/generate sends, an audio body, a text body, a failure.
GenerateReplies ==
    { UiReply("neterr", "", EmptyObj, "TypeError: Failed to fetch"),
      UiReply("badjson", "application/json", EmptyObj,
              "SyntaxError: Unexpected end of JSON input"),
      UiReply("json", "application/json; charset=utf-8",
              MurfBody(fallbackStories[1], [audioFile |-> "https://murf.ai/user-upload/out.mp3"]), ""),
      UiReply("json", "application/json; charset=utf-8",
              MurfBody(fallbackStories[1], [audioContent |-> "SUQzBAAAAAAA"]), ""),
      UiReply("json", "application/json; charset=utf-8",
              MurfBody("", [warning |-> "no audio"]), ""),
      UiReply("json", "application/json; charset=utf-8",
              [error |-> "generation_failed",
               detail |-> ErrorToString(NewError("Murf TTS error 400: Invalid text"))], ""),
      UiReply("body", "audio/mpeg", EmptyObj, "SUQzBAAAAAAA"),
      UiReply("body", "text/html", EmptyObj, "<h1>502 Bad Gateway</h1>") }

\* Faulty variant of UploadJsonError: an error body is not treated as a
\* failure.
UploadJsonErrorIgnored(uploadJson) == ""

\* Line 42: the string of the error thrown on the upload body, "" when none
\* is thrown: new Error(uploadJson.detail || uploadJson.error || ...).
UploadJsonError(uploadJson) ==
    IF Field(uploadJson, "error") = "" THEN ""
    ELSE ErrorToString(NewError(IF Field(uploadJson, "detail") # ""
                                THEN uploadJson.detail ELSE uploadJson.error))

\* Faulty variant of FinallyBlock: the loading flag is left as it is.
FinallyBlockKeepsLoading(u) == [u EXCEPT !.recording = FALSE, !.pc = "idle"]

\* Lines 91-94: the finally block; recordAndSend ends.
FinallyBlock(u) ==
    [u EXCEPT !.loading = FALSE, !.recording = FALSE, !.pc = "idle"]

\* Lines 87-94: the catch block, then the finally block.
UiCatch(u, errString) ==
    FinallyBlock([u EXCEPT !.caught = errString,
                           !.transcript = "Error: " \o errString,
                           !.story = Dash])

\* Line 99: disabled={recording || loading}.
ButtonDisabled(u) == u.recording \/ u.loading

\* Lines 10-15: the button is pressed; recordAndSend starts and asks for the
\* microphone.
RecordClick ==
    /\ ui.pc = "idle"
    /\ ~ButtonDisabled(ui)
    /\ ui.runs < MaxRuns
    /\ ui' = [ui EXCEPT !.recording = TRUE,
                        !.transcript = "Listening...",
                        !.story = Dash,
                        !.runs = @ + 1,
                        !.micGranted = FALSE, !.blobSize = 0,
                        !.uploadReply = NoReply, !.genReply = NoReply,
                        !.sentText = "", !.genSent = FALSE, !.caught = "",
                        !.played = FALSE,
                        !.pc = "mic"]
    /\ UNCHANGED <<up, disk, gen>>

\* Lines 15-23: getUserMedia settles; on success the recorder is started
\* and the 4 s timer begins.
MicAnswer ==
    /\ ui.pc = "mic"
    /\ \E granted \in BOOLEAN :
         ui' = IF granted
               THEN [ui EXCEPT !.micGranted = TRUE, !.pc = "timer"]
               ELSE UiCatch(ui, "NotAllowedError: Permission denied")
    /\ UNCHANGED <<up, disk, gen>>

\* Lines 23-26: the timer fires, the recorder is stopped.
RecordTimer ==
    /\ ui.pc = "timer"
    /\ ui' = [ui EXCEPT !.pc = "stopping"]
    /\ UNCHANGED <<up, disk, gen>>

\* Lines 26-39: the recorder has stopped; the blob is built from the chunks
\* and sent to /api/upload.
RecorderStopped ==
    /\ ui.pc = "stopping"
    /\ \E size \in {0, 4096} :
         ui' = [ui EXCEPT !.blobSize = size,
                          !.transcript = "Uploading for transcription...",
                          !.nUpload = @ + 1,
                          !.pc = "upload"]
    /\ UNCHANGED <<up, disk, gen>>

\* Lines 41-53: what follows a usable upload body without error: the
\* transcript is shown and the /api/generate request is sent.
SendGenerate(u, uploadJson) ==
    LET text == Field(uploadJson, "transcript")
    IN  [u EXCEPT !.transcript = IF text # "" THEN text ELSE "(no transcript)",
                  !.loading = TRUE,
                  !.story = "Generating story...",
                  !.sentText = text,
                  !.genSent = TRUE,
                  !.nGenerate = @ + 1,
                  !.pc = "generate"]

\* Lines 36-53: the upload request is answered.
UploadReply ==
    /\ ui.pc = "upload"
    /\ \E ans \in UploadReplies :
         LET u == [ui EXCEPT !.uploadReply = ans] IN
         ui' = IF ans.kind # "json" THEN UiCatch(u, ans.txt)
               ELSE IF UploadJsonError(ans.json) # ""
               THEN UiCatch(u, UploadJsonError(ans.json))
               ELSE SendGenerate(u, ans.json)
    /\ UNCHANGED <<up, disk, gen>>

\* Lines 55-86: the generate request is answered and its body read.
GenerateReply ==
    /\ ui.pc = "generate"
    /\ \E ans \in GenerateReplies :
         LET u == [ui EXCEPT !.genReply = ans] IN
         ui' = IF ans.kind \in {"neterr", "badjson"} THEN UiCatch(u, ans.txt)
               ELSE IF Includes(ans.ctype, "application/json")
               THEN LET shown == [u EXCEPT !.story =
                                     IF Field(ans.json, "story") # "" THEN ans.json.story
                                     ELSE "(no story returned)"]
                    IN  IF Field(ans.json, "audioUrl") # ""
                        THEN [shown EXCEPT !.audioSrc = ans.json.audioUrl, !.pc = "play"]
                        ELSE IF Field(ans.json, "base64_audio") # ""
                        THEN [shown EXCEPT !.audioSrc = "blob:audio/mpeg", !.pc = "play"]
                        ELSE FinallyBlock(shown)
               ELSE IF Includes(ans.ctype, "audio/")
               THEN [u EXCEPT !.audioSrc = "blob:" \o ans.ctype, !.pc = "play"]
               ELSE FinallyBlock([u EXCEPT !.story = ans.txt])
    /\ UNCHANGED <<up, disk, gen>>

\* Lines 63, 70, 79-81: play() settles; a rejection is swallowed by
\* .catch(() => {}).
PlaySettled ==
    /\ ui.pc = "play"
    /\ \E started \in BOOLEAN :
         LET u == [ui EXCEPT !.played = started] IN
         ui' = FinallyBlock(IF Includes(ui.genReply.ctype, "audio/")
                            THEN [u EXCEPT !.story = "(audio returned and playing)"]
                            ELSE u)
    /\ UNCHANGED <<up, disk, gen>>

NextUi ==
    \/ RecordClick
    \/ MicAnswer
    \/ RecordTimer
    \/ RecorderStopped
    \/ UploadReply
    \/ GenerateReply
    \/ PlaySettled


Init ==
    /\ up = [r \in Reqs |-> UpInit]
    /\ disk = {}
    /\ gen = GenInit
    /\ ui = UiInit

\* server.js keeps no mutable state outside the handlers (lines 141-167 are
\* constants), so requests do not influence one another: a behaviour of Spec
\* follows one request, to /api/upload or to /api/generate, to its response.
\* No request has arrived yet.
Quiet == gen.pc = "idle" /\ \A r \in Reqs : up[r].pc = "idle"

Next ==
    \/ \E r \in SoloReqs :
         \/ Quiet /\ UploadArrive(r)
         \/ IngestAnswer(r)
         \/ CreateAnswer(r)
         \/ SleepDone(r)
         \/ PollAnswer(r)
         \/ UnlinkWork(r)
         \/ UnlinkDone(r)
    \/ Quiet /\ GenerateArrive
    \/ CorpusAnswer
    \/ MurfAnswer

Spec == Init /\ [][Next]_vars

\* Two /api/upload requests at once: Express runs the two async handlers on
\* one event loop, so the code between two awaits of one handler is atomic
\* and the handlers interleave at their awaits in any order. Each upload
\* makes at most MaxConcPolls status requests.
NextConc ==
    \E r \in Reqs :
        \/ UploadArrive(r)
        \/ IngestAnswer(r)
        \/ CreateAnswer(r)
        \/ up[r].nPoll < MaxConcPolls /\ SleepDone(r)
        \/ PollAnswer(r)
        \/ UnlinkWork(r)
        \/ UnlinkDone(r)

SpecConc == Init /\ [][NextConc]_vars

\* The browser alone: the answers of the backend are inputs.
SpecUi == Init /\ [][NextUi]_vars

\* ================================================================ claims
FallbackSet == {fallbackStories[i] : i \in 1..Len(fallbackStories)}

\* The stories the corpus answer `data` can yield once tags are stripped.
CorpusStories(data) == {CleanStory(EntryText(data[i])) : i \in 1..Len(data)}

\* The story has been resolved: it was handed to the speech-synthesis provider.
Resolved == gen.pc \in {"murf", "done"}

\* C1: whatever the transcript and the corpus answer, the story handed to
\* the speech-synthesis provider, and returned on success, is a non-empty
\* string: a corpus story, the template story or a fallback story.
C1_StoryNeverEmpty ==
    Resolved =>
        /\ gen.murfText # ""
        /\ \/ gen.murfText \in FallbackSet
           \/ gen.murfText = TemplateStory(gen.keywords)
           \/ gen.murfText \in CorpusStories(gen.data)
        /\ (gen.res.sent /\ gen.res.status = 200) => gen.res.body.story # ""

\* C2: a transcript longer than 10 characters of which no token survives the
\* keyword filter gets one of the static fallback stories.
C2_NoKeywordFallsBack ==
    LET tokens == SplitWhitespace(ToLowerCase(gen.userText))
    IN  ( /\ Resolved
          /\ Len(gen.userText) > 10
          /\ \A i \in 1..Len(tokens) : Len(tokens[i]) <= 3 \/ tokens[i] \in stopWords )
        => gen.story \in FallbackSet

\* C3: for a transcript of length <= 10 (empty and missing included) no
\* keyword is extracted, the corpus is not queried, and the story is one of
\* the static fallback stories, of which there are at least 3, none empty.
C3_ShortTranscriptFallback ==
    /\ Cardinality(FallbackSet) >= 3
    /\ \A s \in FallbackSet : s # ""
    /\ (gen.pc # "idle" /\ Len(Field(gen.body, "text")) <= 10) =>
           /\ Resolved
           /\ gen.keywords = <<>>
           /\ gen.nCorpus = 0
           /\ gen.story \in FallbackSet
           /\ gen.murfText = gen.story

\* C3 happens: a short transcript that holds a keyword-sized token was
\* answered with a fallback story.
C3_Witness ==
    /\ gen.pc = "done"
    /\ gen.body = [text |-> "dragons!!"]
    /\ gen.res.status = 200
    /\ gen.res.body.story \in FallbackSet

\* The response of an ended upload with a temp file: the deletion was
\* attempted, and the response is the transcript or reports the caught error.
AnsweredAfterCleanup(u) ==
    /\ u.unlinkTried = 1
    /\ u.res.sent
    /\ u.err = NoError =>
           /\ u.unlinkResult \in {"pending", "ok", "failed"}
           /\ u.res = JsonResponse(200, [transcript |-> u.transcriptText])
    /\ u.err # NoError =>
           /\ u.unlinkResult \in {"ok", "failed"}
           /\ u.res.status = 500
           /\ u.res.body.detail = ErrorToString(u.err)

\* C4: once a request that stored a temp file has ended, the deletion of the
\* file was attempted, and the response is the transcript (no error caught)
\* or reports the caught error, whether the deletion succeeded or failed;
\* the outcome of a deletion that ends later changes nothing of it.
C4_CleanupNeverMasks ==
    /\ [](\A r \in Reqs :
             (up[r].pc = "done" /\ up[r].file.present) => AnsweredAfterCleanup(up[r]))
    /\ [][\A r \in Reqs :
             up[r].res.sent => (up'[r].res = up[r].res /\ up'[r].err = up[r].err)]_vars

\* C4 happens: ingestion was rejected with HTTP 401, the deletion failed, and
\* the response reports the 401.
C4_Witness ==
    \E r \in Reqs :
        /\ up[r].pc = "done"
        /\ up[r].unlinkResult = "failed"
        /\ up[r].file.path \in disk
        /\ up[r].res.status = 500
        /\ up[r].res.body.detail = "Error: AssemblyAI upload failed: 401 Unauthorized"

\* C5: the response of an upload that reached the poll loop is sent no later
\* than the 60-second budget plus one poll interval after polling began.
C5_WithinBudget ==
    \A r \in Reqs :
        (up[r].res.sent /\ up[r].nPoll >= 1) =>
            up[r].elapsed <= timeoutMs + PollIntervalMs

PollFailed(u) == u.pollKind \in {"neterr", "http", "badjson"}

PollStatus(u) == Field(u.pollJson, "status")

\* C6: every success response of /api/upload carries a non-empty transcript.
C6_SuccessTranscriptNonEmpty ==
    \A r \in Reqs :
        (up[r].res.sent /\ up[r].res.status = 200) =>
            up[r].res.body.transcript # ""

\* C6 as amended: a success response carries the text of the completed poll,
\* which is the empty string when the provider reports completed with empty
\* or missing text; an upload with a file ends with such a response or with
\* an error response.
C6_SuccessTranscriptIsProviderText ==
    \A r \in Reqs :
        (up[r].pc = "done" /\ up[r].file.present) =>
            \/ /\ up[r].res.status = 200
               /\ DOMAIN up[r].res.body = {"transcript"}
               /\ up[r].res.body.transcript =
                      (IF "text" \in DOMAIN up[r].pollJson THEN up[r].pollJson.text ELSE "")
            \/ /\ up[r].res.status = 500
               /\ "error" \in DOMAIN up[r].res.body

\* C6 happens: the provider reported completed without text and the
\* request succeeded with an empty transcript.
C6_Witness ==
    \E r \in Reqs :
        /\ up[r].res.status = 200
        /\ up[r].pollJson = [status |-> "completed"]
        /\ up[r].res.body.transcript = ""

\* C7: a request whose job was created is answered only after a status poll
\* returned completed or error, or after the budget elapsed; a success
\* response follows a poll that observed completed and carries its text.
C7_ResponseAfterTerminalOrTimeout ==
    \A r \in Reqs :
        (up[r].res.sent /\ up[r].transcriptId # "") =>
            /\ \/ (up[r].pollKind = "json" /\ PollStatus(up[r]) \in {"completed", "error"})
               \/ up[r].elapsed > timeoutMs
            /\ up[r].res.status = 200 =>
                   /\ up[r].pollKind = "json"
                   /\ PollStatus(up[r]) = "completed"
                   /\ up[r].res.body.transcript = Field(up[r].pollJson, "text")

\* C7 as amended: ... or after a status request of that job failed (network
\* failure, non-success status, unusable body).
C7_ResponseAfterTerminalFailureOrTimeout ==
    \A r \in Reqs :
        (up[r].res.sent /\ up[r].transcriptId # "") =>
            /\ up[r].nPoll >= 1
            /\ up[r].polledId = up[r].transcriptId
            /\ \/ (up[r].pollKind = "json" /\ PollStatus(up[r]) \in {"completed", "error"})
               \/ PollFailed(up[r])
               \/ up[r].elapsed > timeoutMs
            /\ up[r].res.status = 200 =>
                   /\ up[r].pollKind = "json"
                   /\ PollStatus(up[r]) = "completed"
                   /\ up[r].res.body.transcript = Field(up[r].pollJson, "text")
            /\ (up[r].pollKind = "json" /\ PollStatus(up[r]) \notin {"completed", "error"}) =>
                   up[r].err = TimeoutError

\* C7 happens: after polls that saw the job still running, a poll observed
\* completed within the budget and its text was returned.
C7_Witness ==
    \E r \in Reqs :
        /\ up[r].res.status = 200
        /\ up[r].nPoll >= 3
        /\ up[r].elapsed <= timeoutMs
        /\ up[r].res.body.transcript = "tell me about dragons and castles"

\* C8: per upload the ingestion request and the job-creation request are
\* sent at most once, in that order, only the status poll is repeated, and
\* after a failure nothing stays in flight.
C8_AtMostOneJob ==
    \A r \in Reqs :
        /\ up[r].nIngest <= 1
        /\ up[r].nCreate <= 1
        /\ up[r].nCreate <= up[r].nIngest
        /\ up[r].nPoll >= 1 => (up[r].nCreate = 1 /\ up[r].polledId = up[r].transcriptId)
        /\ up[r].err # NoError => up[r].pc = "done"
        /\ up[r].pc = "done" =>
               ~ENABLED (IngestAnswer(r) \/ CreateAnswer(r) \/ SleepDone(r) \/ PollAnswer(r))
        /\ (up[r].pc = "done" /\ up[r].err # NoError) => ~ENABLED Upload(r)

\* C8 happens: the status poll was repeated and then failed; one ingestion
\* and one job creation were sent.
C8_Witness ==
    \E r \in Reqs :
        /\ up[r].pc = "done"
        /\ up[r].err # NoError
        /\ up[r].nPoll >= 3
        /\ up[r].nIngest = 1
        /\ up[r].nCreate = 1

\* C9: an upload with an empty or missing blob gets the no-file error and no
\* request is sent to the provider.
C9_EmptyOrMissingBlobRejected ==
    \A r \in Reqs :
        (up[r].pc # "idle" /\ (~up[r].file.present \/ up[r].file.size = 0)) =>
            /\ up[r].res.sent
            /\ Field(up[r].res.body, "error") = "no_file"
            /\ up[r].nIngest = 0
            /\ up[r].nCreate = 0
            /\ up[r].nPoll = 0

UploadFailed(u) == u.res.sent /\ (~u.file.present \/ u.err # NoError)

GenerateFailed == gen.res.sent /\ gen.err # NoError

\* C10: every failure of either pipeline is answered with HTTP 500 and a
\* body with an error code and a detail string.
C10_FailuresAre500WithDetail ==
    /\ \A r \in Reqs :
           UploadFailed(up[r]) =>
               /\ up[r].res.status = 500
               /\ {"error", "detail"} \subseteq DOMAIN up[r].res.body
    /\ GenerateFailed =>
           /\ gen.res.status = 500
           /\ {"error", "detail"} \subseteq DOMAIN gen.res.body

\* C10 as amended: every failure but the missing file is answered with HTTP
\* 500 and a body with an error code and a non-empty detail string; the
\* missing file is answered with HTTP 400 and the error code no_file alone.
C10_FailuresExceptNoFileAre500 ==
    /\ \A r \in Reqs :
           UploadFailed(up[r]) =>
               IF ~up[r].file.present
               THEN /\ up[r].res.status = 400
                    /\ up[r].res.body = [error |-> "no_file"]
               ELSE /\ up[r].res.status = 500
                    /\ DOMAIN up[r].res.body = {"error", "detail"}
                    /\ up[r].res.body.error = "upload_failed"
                    /\ up[r].res.body.detail # ""
    /\ GenerateFailed =>
           /\ gen.res.status = 500
           /\ DOMAIN gen.res.body = {"error", "detail"}
           /\ gen.res.body.error = "generation_failed"
           /\ gen.res.body.detail # ""
    /\ \A r \in Reqs : (up[r].res.sent /\ ~UploadFailed(up[r])) => up[r].res.status = 200
    /\ (gen.res.sent /\ ~GenerateFailed) => gen.res.status = 200

\* C10 happens: the speech-synthesis provider refused the story and the
\* request was answered with 500, generation_failed and the provider's words.
C10_Witness ==
    /\ gen.res.status = 500
    /\ gen.res.body.error = "generation_failed"
    /\ gen.res.body.detail = "Error: Murf TTS error 400: Invalid text"

\* C11: a success response of /api/generate for a non-empty story carries
\* exactly one audio result, a URL or a base64 payload, never both and
\* never none.
C11_ExactlyOneAudio ==
    (gen.res.sent /\ gen.res.status = 200 /\ gen.story # "") =>
        ("audioUrl" \in DOMAIN gen.res.body) # ("base64_audio" \in DOMAIN gen.res.body)

\* A poll answered with a status that is neither completed nor error.
NonTerminalPoll(u) ==
    u.pollKind = "json" /\ PollStatus(u) \notin {"completed", "error"}

\* C12: polling does not go on forever. The loop goes round only while the
\* elapsed time is within the budget, so at most 61 status requests are
\* sent; a non-terminal answer that arrives after more than 60 seconds ends
\* the request with the transcription-timeout error; and a request that has
\* not ended always has a next step.
C12_PollingEndsWithTimeout ==
    \A r \in Reqs :
        /\ up[r].pc = "sleep" => up[r].elapsed <= timeoutMs
        /\ up[r].nPoll <= timeoutMs \div PollIntervalMs + 1
        /\ (up[r].nPoll >= 1 /\ up[r].pc # "poll" /\ NonTerminalPoll(up[r])
              /\ up[r].elapsed > timeoutMs) =>
               /\ up[r].pc = "done"
               /\ up[r].err = TimeoutError
               /\ up[r].res.status = 500
               /\ up[r].res.body.detail = "Error: AssemblyAI transcription timed out."
        /\ up[r].pc \in {"ingest", "create", "sleep", "poll"} => ENABLED Upload(r)

\* C12 happens: 61 status requests were all answered queued or processing
\* and the request ended with the timeout error.
C12_Witness ==
    \E r \in Reqs :
        /\ up[r].pc = "done"
        /\ up[r].nPoll = 61
        /\ NonTerminalPoll(up[r])
        /\ up[r].err = TimeoutError

\* Whether the text of corpus entry e contains one of the keywords, letter
\* case ignored.
ContainsKeyword(e, keywords) ==
    \E i \in 1..Len(keywords) : Includes(ToLowerCase(EntryText(e)), keywords[i])

\* The corpus answered with entries none of which contains a keyword.
NoEntryMatches ==
    /\ gen.corpusKind = "json"
    /\ Len(gen.data) > 0
    /\ \A i \in 1..Len(gen.data) : ~ContainsKeyword(gen.data[i], gen.keywords)

DragonsRequest == gen.body = [text |-> "tell me about dragons and castles"]

\* C13: for "tell me about dragons and castles" the keywords are dragons,
\* castles, and when no corpus entry contains either, the story is the
\* template story, which contains "dragons".
C13_NoMatchGivesTemplate ==
    (DragonsRequest /\ gen.pc # "idle") =>
        /\ gen.keywords = <<"dragons", "castles">>
        /\ (Resolved /\ NoEntryMatches) =>
               /\ gen.story = TemplateStory(<<"dragons", "castles">>)
               /\ Includes(gen.story, "dragons")

\* C13 as amended: ... when no corpus entry contains either keyword, the
\* story is the text, tags stripped, of an entry drawn among all entries if
\* that text is longer than 50 characters as received and not empty once
\* stripped, and otherwise the template story, which contains "dragons".
C13_NoMatchGivesEntryOrTemplate ==
    (DragonsRequest /\ gen.pc # "idle") =>
        /\ gen.keywords = <<"dragons", "castles">>
        /\ (Resolved /\ NoEntryMatches) =>
               /\ \E i \in 1..Len(gen.data) : gen.extracted = EntryText(gen.data[i])
               /\ IF Len(gen.extracted) > 50 /\ CleanStory(gen.extracted) # ""
                  THEN gen.story = CleanStory(gen.extracted)
                  ELSE /\ gen.story = TemplateStory(<<"dragons", "castles">>)
                       /\ Includes(gen.story, "dragons")

\* C13 happens: the corpus held one short entry without either keyword and
\* the template story about dragons and castles was handed on.
C13_Witness ==
    /\ DragonsRequest
    /\ Resolved
    /\ gen.data = <<TinyEntry>>
    /\ gen.story = TemplateStory(<<"dragons", "castles">>)
    /\ Includes(gen.story, "story about dragons, castles.")

\* Whether s holds a raw HTML tag marker: a "<" with a ">" somewhere after it.
HasTagMarker(s) ==
    \E i \in 1..Len(s) :
        CharAt(s, i) = "<" /\ \E j \in (i + 1)..Len(s) : CharAt(s, j) = ">"

\* C14: for a transcript with at least one keyword the resolved story is
\* not empty and holds no raw HTML tag marker, on the corpus path and on the
\* template path.
C14_StoryWithoutTags ==
    (Resolved /\ gen.keywords # <<>>) =>
        /\ gen.story # ""
        /\ ~HasTagMarker(gen.story)

\* The positions, in the lowercased whitespace-split text, of the tokens of
\* length >= 4 that are no stop word.
KeywordPositions(text) ==
    LET tokens == SplitWhitespace(ToLowerCase(text))
    IN  {i \in 1..Len(tokens) : Len(tokens[i]) >= 4 /\ tokens[i] \notin stopWords}

\* Whether keywords holds the first 3 such tokens of text, in their order.
IsFirstKeywords(keywords, text) ==
    LET tokens == SplitWhitespace(ToLowerCase(text))
        good == KeywordPositions(text)
        rank(i) == Cardinality({j \in good : j <= i})
    IN  /\ Len(keywords) = (IF Cardinality(good) < 3 THEN Cardinality(good) ELSE 3)
        /\ \A k \in 1..Len(keywords) :
             \E i \in good : rank(i) = k /\ keywords[k] = tokens[i]

\* C15: once keyword extraction has run on a transcript, the keyword sequence
\* is the first 3 tokens, in original order, of the lowercased whitespace-split
\* transcript that have length >= 4 and are no stop word; so it has at most 3
\* elements, all lowercase, none a stop word, none shorter than 4 characters,
\* and it is a function of the transcript alone.
C15_KeywordsAreFirstThreeTokens ==
    (gen.pc # "idle" /\ UseKeywords(gen.userText)) =>
        /\ IsFirstKeywords(gen.keywords, gen.userText)
        /\ gen.keywords = ExtractKeywords(gen.userText)
        /\ Len(gen.keywords) <= 3
        /\ \A k \in 1..Len(gen.keywords) :
             /\ ToLowerCase(gen.keywords[k]) = gen.keywords[k]
             /\ gen.keywords[k] \notin stopWords
             /\ Len(gen.keywords[k]) >= 4

\* A transcript with five qualifying tokens, mixed case and mixed whitespace,
\* has been reduced to its first three.
C15_Witness ==
    /\ gen.pc # "idle"
    /\ gen.userText = "Brave KNIGHTS  fought\tfierce Dragons"
    /\ Cardinality(KeywordPositions(gen.userText)) = 5
    /\ gen.keywords = <<"brave", "knights", "fought">>

\* C16: the elapsed time is compared with the budget before each status
\* request is sent as well as after its answer, so that no status request is
\* in flight that was sent after the budget had elapsed; a round of the loop
\* begins with a timed sleep. (While a status request is in flight, elapsed
\* is the time at which it was sent.)
C16_NoPollAfterBudget ==
    \A r \in Reqs :
        /\ up[r].pc = "poll" => up[r].elapsed <= timeoutMs
        /\ up[r].pc = "poll" => up[r].elapsed >= up[r].nPoll * PollIntervalMs

\* The provider requests of upload r are in the order ingestion, job
\* creation, status polls, each sent on the success of the one before.
ProviderOrder(u) ==
    /\ u.nIngest <= 1 /\ u.nCreate <= 1
    /\ u.pc = "ingest" => (u.nIngest = 1 /\ u.nCreate = 0 /\ u.nPoll = 0)
    /\ u.nCreate >= 1 => (u.nIngest = 1 /\ u.audioUrl # "")
    /\ u.pc = "create" => u.nPoll = 0
    /\ u.nPoll >= 1 => (u.nCreate = 1 /\ u.transcriptId # "" /\ u.polledId = u.transcriptId)
    /\ u.err # NoError => u.pc = "done"

\* No provider request is sent by an upload that has ended.
NoRequestAfterEnd(r) ==
    up[r].pc = "done" =>
        /\ up'[r].nIngest = up[r].nIngest
        /\ up'[r].nCreate = up[r].nCreate
        /\ up'[r].nPoll = up[r].nPoll
        /\ up'[r].pc = "done"

\* C17: the job-creation request is sent only after ingestion answered
\* success with a reference URL, a status request only after job creation
\* returned a job identifier, and after a failure of any step no later
\* provider request is sent for that upload.
C17_ProviderOrder ==
    /\ [](\A r \in Reqs : ProviderOrder(up[r]))
    /\ [][\A r \in Reqs : NoRequestAfterEnd(r)]_vars

\* An upload that went through ingestion, job creation and two status
\* requests and then failed.
C17_Witness ==
    \E r \in Reqs :
        /\ up[r].nIngest = 1 /\ up[r].nCreate = 1 /\ up[r].nPoll = 2
        /\ up[r].err # NoError
        /\ up[r].pc = "done"

\* The last status request of u was answered with status error.
ReportedError(u) == u.pollKind = "json" /\ PollStatus(u) = "error"

\* What the upload answers after a status poll that reported an error.
FailsWithTranscriptionError(u) ==
    /\ u.pc = "done"
    /\ u.res.sent /\ u.res.status = 500
    /\ u.res.body.error = "upload_failed"
    /\ "transcript" \notin DOMAIN u.res.body
    /\ u.transcriptText = ""
    /\ Includes(u.res.body.detail, "AssemblyAI transcription error: ")
    /\ Field(u.pollJson, "error") # "" =>
           u.res.body.detail =
               "Error: AssemblyAI transcription error: " \o u.pollJson.error

\* C18: when a status poll reports status error the upload stops polling
\* and fails with a transcription error whose detail carries the provider's
\* error message; no transcript is returned and no further status request is
\* sent.
C18_ErrorStatusFails ==
    /\ [](\A r \in Reqs : ReportedError(up[r]) => FailsWithTranscriptionError(up[r]))
    /\ [][\A r \in Reqs : ReportedError(up[r]) => up'[r] = up[r]]_vars

\* The second status poll reported the error "audio is unreadable".
C18_Witness ==
    \E r \in Reqs :
        /\ ReportedError(up[r])
        /\ up[r].nPoll = 2
        /\ Field(up[r].pollJson, "error") = "audio is unreadable"
        /\ up[r].res.body.detail =
               "Error: AssemblyAI transcription error: audio is unreadable"

\* The texts of the entries of data at the positions in `where`.
TextsAt(data, where) == {EntryText(data[i]) : i \in where}

\* The positions of the corpus entries that contain a keyword.
MatchingPositions(data, keywords) ==
    {i \in 1..Len(data) : ContainsKeyword(data[i], keywords)}

\* C19: with keywords and a successful corpus query, the chosen text is the
\* text of a matching entry when some entry contains a keyword (letter case
\* ignored), and the text of some entry of the corpus when none does; it is
\* never a text from outside the corpus, and never that of a non-matching
\* entry while a matching one exists.
C19_ChosenEntryIsMatchOrAny ==
    (gen.corpusKind = "json" /\ Len(gen.data) > 0) =>
        LET matching == MatchingPositions(gen.data, gen.keywords)
        IN  /\ gen.keywords # <<>>
            /\ gen.extracted \in TextsAt(gen.data, 1..Len(gen.data))
            /\ matching # {} => gen.extracted \in TextsAt(gen.data, matching)

\* The corpus holds the turtle entry and then the dragon entry, whose text
\* spells "Dragons" with a capital; for the keywords dragons, castles the
\* dragon entry is the one chosen.
C19_Witness ==
    /\ DragonsRequest
    /\ gen.corpusKind = "json"
    /\ gen.data = <<TurtleEntry, DragonEntry>>
    /\ MatchingPositions(gen.data, gen.keywords) = {2}
    /\ gen.extracted = DragonEntry.story

\* The corpus query failed: network error, non-success status, unusable
\* body, or no entry to choose.
CorpusQueryFailed == gen.corpusKind # "json" \/ Len(gen.data) = 0

\* C20: with keywords, the story is the template story whenever the corpus
\* query fails or the tag-stripped chosen text is shorter than 50 characters;
\* a corpus story is returned only when its tag-stripped text has at least 50
\* characters.
C20_ShortStrippedGivesTemplate ==
    (Resolved /\ gen.keywords # <<>>) =>
        /\ CorpusQueryFailed => gen.story = TemplateStory(gen.keywords)
        /\ (~CorpusQueryFailed /\ Len(CleanStory(gen.extracted)) < MinStoryLength) =>
               gen.story = TemplateStory(gen.keywords)
        /\ gen.story # TemplateStory(gen.keywords) =>
               /\ gen.story = CleanStory(gen.extracted)
               /\ Len(gen.story) >= MinStoryLength

\* The speech-synthesis provider answered with a non-success status.
MurfRefused == gen.murfKind = "http"

\* C21: when the speech-synthesis provider answers with a non-success status
\* the request fails with the narration error, whose detail holds the
\* provider's status and message, and the response holds no story and no
\* audio.
C21_NarrationErrorNoPartial ==
    MurfRefused =>
        /\ gen.pc = "done"
        /\ gen.res.sent /\ gen.res.status = 500
        /\ DOMAIN gen.res.body = {"error", "detail"}
        /\ gen.res.body.error = "generation_failed"
        /\ gen.res.body.detail =
               "Error: Murf TTS error " \o ToString(gen.murfStatus) \o ": " \o gen.murfTxt
        /\ Includes(gen.res.body.detail, ToString(gen.murfStatus))
        /\ Includes(gen.res.body.detail, gen.murfTxt)

\* A story had been resolved from the corpus when the provider refused the
\* narration with status 429.
C21_Witness ==
    /\ MurfRefused
    /\ gen.murfStatus = 429 /\ gen.murfTxt = "Rate limit exceeded"
    /\ gen.story # "" /\ gen.story \in CorpusStories(gen.data)
    /\ gen.res.body.detail = "Error: Murf TTS error 429: Rate limit exceeded"

\* Upload r has a stored file and has not answered yet.
InProgress(u) == u.file.present /\ u.pc \notin {"idle", "done"}

\* What belongs to upload r is its own: its path, its job, its transcript.
OwnResources(r) ==
    LET u == up[r] IN
    /\ \A q \in Reqs \ {r} :
           /\ (u.file.present /\ up[q].file.present) => u.file.path # up[q].file.path
           /\ (u.transcriptId # "" /\ up[q].transcriptId # "") =>
                  u.transcriptId # up[q].transcriptId
    /\ u.transcriptId \in {"", "job" \o ToString(r)}
    /\ u.nPoll >= 1 => u.polledId = u.transcriptId
    /\ (u.res.sent /\ u.res.status = 200) =>
           /\ u.res.body.transcript = TranscriptOf(u.pollJson)
           /\ u.res.body.transcript \in {"", JobText(r)}
    /\ InProgress(u) => u.file.path \in disk

\* A step removes from uploads/ only the file of an upload that has ended
\* and asked for its deletion.
DeletesOwnFileOnly ==
    \A p \in disk \ disk' :
        \E r \in Reqs :
            /\ up[r].file.path = p
            /\ up'[r].pc = "done" /\ up'[r].unlinkTried = 1
            /\ \A q \in Reqs \ {r} : up'[q] = up[q]

\* C22: under any interleaving of two concurrent uploads each request has
\* its own temp file path, job identifier and transcript: it polls only the
\* job it created, returns only that job's text, and its cleanup deletes only
\* its own temp file, never the file of the other request still in progress.
C22_RequestsIsolated ==
    /\ [](\A r \in Reqs : OwnResources(r))
    /\ [][DeletesOwnFileOnly]_vars

\* Upload 1 has ended with its own transcript and its file deleted while
\* upload 2 is still polling its own job, its file still on disk.
C22_Witness ==
    /\ up[1].pc = "done" /\ up[1].res.status = 200
    /\ up[1].res.body.transcript = JobText(1)
    /\ up[1].file.path \notin disk
    /\ up[2].pc = "poll" /\ up[2].polledId = "job2"
    /\ up[2].file.path \in disk

\* The last status request of u was answered with status completed.
ReportedCompleted(u) == u.pollKind = "json" /\ PollStatus(u) = "completed"

\* C23: the job status is examined before the budget: a poll that observes
\* status completed yields the success response with the transcript however
\* much time has elapsed, and the timeout error is raised only after a poll
\* that returned a non-terminal status with the budget exceeded.
C23_StatusBeforeBudget ==
    \A r \in Reqs :
        /\ ReportedCompleted(up[r]) =>
               /\ up[r].err = NoError
               /\ up[r].res = JsonResponse(200, [transcript |-> TranscriptOf(up[r].pollJson)])
        /\ up[r].err = TimeoutError =>
               /\ up[r].pollKind = "json"
               /\ PollStatus(up[r]) \notin {"completed", "error"}
               /\ up[r].elapsed > timeoutMs

\* A poll answered completed 62 s after polling began, and the transcript
\* was returned.
C23_Witness ==
    \E r \in Reqs :
        /\ ReportedCompleted(up[r])
        /\ up[r].elapsed > timeoutMs
        /\ up[r].res.status = 200
        /\ up[r].res.body.transcript = JobText(r)

\* The microphone was refused in the current run of recordAndSend.
MicRefused(u) == u.runs >= 1 /\ u.pc # "mic" /\ ~u.micGranted

\* The upload of the current run was answered with an error body.
UploadAnsweredError(u) ==
    u.uploadReply.kind = "json" /\ Field(u.uploadReply.json, "error") # ""

\* The upload of the current run got no usable answer.
UploadUnanswered(u) == u.uploadReply.kind \in {"neterr", "badjson"}

\* The transcript display shows the error text.
ShowsError(u, text) ==
    /\ SubSeq(u.transcript, 1, 7) = "Error: "
    /\ Includes(u.transcript, text)

\* C24: the /api/generate request is sent only after /api/upload answered
\* with a body that has no error field; when the upload fails (error body,
\* network failure, microphone refusal) no generate request is sent in that
\* run and the transcript display shows the error.
C24_GenerateOnlyAfterUpload ==
    /\ [](/\ ui.genSent =>
               /\ ui.uploadReply.kind = "json"
               /\ Field(ui.uploadReply.json, "error") = ""
               /\ ui.sentText = Field(ui.uploadReply.json, "transcript")
          /\ MicRefused(ui) =>
               /\ ~ui.genSent /\ ui.nUpload < ui.runs
               /\ ShowsError(ui, "NotAllowedError")
          /\ UploadUnanswered(ui) =>
               ~ui.genSent /\ ShowsError(ui, ui.uploadReply.txt)
          /\ UploadAnsweredError(ui) =>
               /\ ~ui.genSent
               /\ ShowsError(ui, IF Field(ui.uploadReply.json, "detail") # ""
                                 THEN ui.uploadReply.json.detail
                                 ELSE ui.uploadReply.json.error))
    /\ [][ui'.nGenerate # ui.nGenerate =>
            /\ ui.pc = "upload"
            /\ ui'.nGenerate = ui.nGenerate + 1
            /\ ui'.uploadReply.kind = "json"
            /\ Field(ui'.uploadReply.json, "error") = ""]_vars

\* The first run sent its generate request; the second run's upload was
\* answered with the timeout failure, which is shown, and sent none.
C24_Witness ==
    /\ ui.runs = 2 /\ ui.nUpload = 2 /\ ui.nGenerate = 1
    /\ UploadAnsweredError(ui)
    /\ ~ui.genSent
    /\ ui.transcript = "Error: Error: Error: AssemblyAI transcription timed out."

\* C25: the recording flag is true from the start of recordAndSend until it
\* ends, whatever the path; when it has ended both the recording and the
\* loading flag are false; so the record button is disabled during a run,
\* enabled after it, and pressed only while enabled.
C25_FlagsFollowRun ==
    /\ [](/\ ui.pc # "idle" => (ui.recording /\ ButtonDisabled(ui))
          /\ ui.pc = "idle" => (~ui.recording /\ ~ui.loading /\ ~ButtonDisabled(ui))
          /\ ui.loading => ui.genSent)
    /\ [][ui'.runs # ui.runs => (~ButtonDisabled(ui) /\ ui'.recording)]_vars

\* A run that went as far as the playback has ended, and so has a second
\* run that failed at the generate request while the loading flag was set.
C25_Witness ==
    /\ ui.runs = 2 /\ ui.pc = "idle"
    /\ ui.audioSrc # ""
    /\ ui.genSent /\ ui.genReply.kind = "neterr"
    /\ ~ui.recording /\ ~ui.loading

====
